---------------------------- MODULE Spec2Model ----------------------------
(***************************************************************************)
(* A model of Scraper_Steam_Public_View.py: one run of the script reads a  *)
(* token, resolves the locator, fetches the page, extracts the profile     *)
(* record field by field and appends it to the CSV target.                 *)
(*                                                                         *)
(* Text is modelled as a sequence of one-character strings, so that `in`,  *)
(* split, strip, int() and float() are computed and not assumed.  A Python *)
(* value is a tagged record: NoneV, PyStr(text), PyInt(n),                 *)
(* PyFloat(tenths), PyList(seq).  A call that may raise returns Ok(value)  *)
(* or Raise(type, msg).                                                    *)
(***************************************************************************)
EXTENDS Integers, Sequences, FiniteSets, TLC

(***************************************************************************)
(* String literals of the source, character by character.                  *)
(***************************************************************************)
\* 'steamcommunity.com'
HOST == <<"s","t","e","a","m","c","o","m","m","u","n","i","t","y",".","c","o","m">>
\* 'Could not find profile'
MSG_NOT_FOUND ==
    <<"C","o","u","l","d"," ","n","o","t"," ","f","i","n","d"," ","p","r","o","f","i","l","e">>
\* 'Failed to access profile. Status code: '
MSG_STATUS_PREFIX ==
    <<"F","a","i","l","e","d"," ","t","o"," ","a","c","c","e","s","s"," ","p","r","o","f","i","l",
      "e","."," ","S","t","a","t","u","s"," ","c","o","d","e",":"," ">>
\* 'Error parsing profile data: '
MSG_PARSE_PREFIX ==
    <<"E","r","r","o","r"," ","p","a","r","s","i","n","g"," ","p","r","o","f","i","l","e"," ","d",
      "a","t","a",":"," ">>
\* 'games/?tab=all'
GAMES_TAB_MARK == <<"g","a","m","e","s","/","?","t","a","b","=","a","l","l">>
\* 'games owned'
GAMES_OWNED == <<"g","a","m","e","s"," ","o","w","n","e","d">>
\* 'N/A'
NOT_APPLICABLE == <<"N","/","A">>
\* ' hrs'
HRS == <<" ","h","r","s">>
\* 'In-Game'
IN_GAME == <<"I","n","-","G","a","m","e">>
\* 'Years of Service'
YEARS_OF_SERVICE == <<"Y","e","a","r","s"," ","o","f"," ","S","e","r","v","i","c","e">>
\* 'Member since '
MEMBER_SINCE == <<"M","e","m","b","e","r"," ","s","i","n","c","e"," ">>
\* '\n'
NEWLINE == <<"\n">>
\* '.'
PERIOD == <<".">>
\* "'NoneType' object has no attribute 'find'"
EXC_NO_FIND ==
    <<"'","N","o","n","e","T","y","p","e","'"," ","o","b","j","e","c","t"," ","h","a","s"," ","n",
      "o"," ","a","t","t","r","i","b","u","t","e"," ","'","f","i","n","d","'">>
\* "'NoneType' object has no attribute 'text'"
EXC_NO_TEXT ==
    <<"'","N","o","n","e","T","y","p","e","'"," ","o","b","j","e","c","t"," ","h","a","s"," ","n",
      "o"," ","a","t","t","r","i","b","u","t","e"," ","'","t","e","x","t","'">>
\* "'NoneType' object has no attribute 'find_all'"
EXC_NO_FIND_ALL ==
    <<"'","N","o","n","e","T","y","p","e","'"," ","o","b","j","e","c","t"," ","h","a","s"," ","n",
      "o"," ","a","t","t","r","i","b","u","t","e"," ","'","f","i","n","d","_","a","l","l","'">>
\* "'NoneType' object has no attribute 'select'"
EXC_NO_SELECT ==
    <<"'","N","o","n","e","T","y","p","e","'"," ","o","b","j","e","c","t"," ","h","a","s"," ","n",
      "o"," ","a","t","t","r","i","b","u","t","e"," ","'","s","e","l","e","c","t","'">>
\* "'NoneType' object is not callable"
EXC_NOT_CALLABLE ==
    <<"'","N","o","n","e","T","y","p","e","'"," ","o","b","j","e","c","t"," ","i","s"," ","n","o",
      "t"," ","c","a","l","l","a","b","l","e">>
\* "'NoneType' object is not subscriptable"
EXC_NOT_SUBSCRIPTABLE ==
    <<"'","N","o","n","e","T","y","p","e","'"," ","o","b","j","e","c","t"," ","i","s"," ","n","o",
      "t"," ","s","u","b","s","c","r","i","p","t","a","b","l","e">>
\* "'href'"
EXC_KEY_HREF == <<"'","h","r","e","f","'">>
\* 'list index out of range'
EXC_LIST_INDEX ==
    <<"l","i","s","t"," ","i","n","d","e","x"," ","o","u","t"," ","o","f"," ","r","a","n","g",
      "e">>
\* 'Connection refused'
EXC_CONNECTION == <<"C","o","n","n","e","c","t","i","o","n"," ","r","e","f","u","s","e","d">>

(***************************************************************************)
(* Python values and call outcomes.                                        *)
(***************************************************************************)
NoneV == [t |-> "None"]
PyStr(s) == [t |-> "str", v |-> s]
PyInt(n) == [t |-> "int", v |-> n]
PyFloat(x) == [t |-> "float", v |-> x]
PyList(l) == [t |-> "list", v |-> l]

Ok(v) == [ok |-> TRUE, val |-> v]
Raise(type, msg) == [ok |-> FALSE, exc |-> type, msg |-> msg]

(***************************************************************************)
(* Built-in string operations, as CPython computes them.  They are         *)
(* functions, so that an argument is evaluated once, when it is applied;   *)
(* for the same reason an intermediate result that is read several times   *)
(* is bound as a value (x \in {e}) where a LET would recompute it.         *)
(***************************************************************************)
Text == Seq(STRING)
Whitespace == {" ", "\n", "\t"}
Digits == <<"0","1","2","3","4","5","6","7","8","9">>
DigitChars == {Digits[i] : i \in 1..10}
DigitValue[c \in DigitChars] == (CHOOSE i \in 1..10 : Digits[i] = c) - 1

\* sub in s
Contains[s \in Text, sub \in Text] ==
    \E i \in 1..(Len(s) - Len(sub) + 1) : SubSeq(s, i, i + Len(sub) - 1) = sub

\* s.find(sub) + 1: the place of the first occurrence, 0 when there is none
IndexOf[s \in Text, sub \in Text] ==
    IF Contains[s, sub]
    THEN CHOOSE i \in 1..(Len(s) - Len(sub) + 1) :
            /\ SubSeq(s, i, i + Len(sub) - 1) = sub
            /\ \A j \in 1..(i - 1) : SubSeq(s, j, j + Len(sub) - 1) # sub
    ELSE 0

\* s.lstrip(chars)
LStripChars[s \in Text, chars \in SUBSET STRING] ==
    IF s # <<>> /\ Head(s) \in chars THEN LStripChars[Tail(s), chars] ELSE s

\* s.rstrip(chars)
RStripChars[s \in Text, chars \in SUBSET STRING] ==
    IF s # <<>> /\ s[Len(s)] \in chars
    THEN RStripChars[SubSeq(s, 1, Len(s) - 1), chars]
    ELSE s

\* s.strip(chars)
StripChars[s \in Text, chars \in SUBSET STRING] == RStripChars[LStripChars[s, chars], chars]

\* s.strip()
Strip[s \in Text] == StripChars[s, Whitespace]

\* s.split(sep, maxsplit), and re.split of a literal pattern, for a non-empty
\* sep; maxsplit = -1 is no limit
SplitMax[s \in Text, sep \in Text, maxsplit \in Int] ==
    CHOOSE out \in
        {IF i = 0 \/ maxsplit = 0
         THEN <<s>>
         ELSE <<SubSeq(s, 1, i - 1)>>
              \o SplitMax[SubSeq(s, i + Len(sep), Len(s)), sep,
                          IF maxsplit < 0 THEN maxsplit ELSE maxsplit - 1] :
            i \in {IndexOf[s, sep]}} : TRUE

\* s.split(sep)
Split[s \in Text, sep \in Text] == SplitMax[s, sep, -1]

\* re.sub('\D', '', s): the digits of s, in order
OnlyDigits[s \in Text] ==
    IF s = <<>> THEN <<>>
    ELSE (IF Head(s) \in DigitChars THEN <<Head(s)>> ELSE <<>>) \o OnlyDigits[Tail(s)]

\* the value of a run of decimal digits
DigitsValue[s \in Text] ==
    IF s = <<>> THEN 0
    ELSE 10 * DigitsValue[SubSeq(s, 1, Len(s) - 1)] + DigitValue[s[Len(s)]]

AllDigits[s \in Text] == \A i \in 1..Len(s) : s[i] \in DigitChars

\* str(n) for an integer n
NatToStr[n \in Nat] ==
    IF n < 10 THEN <<Digits[n + 1]>>
    ELSE NatToStr[n \div 10] \o <<Digits[(n % 10) + 1]>>

IntToStr[n \in Int] == IF n < 0 THEN <<"-">> \o NatToStr[-n] ELSE NatToStr[n]

\* str(x) for a float x held in tenths: "12.5", "3.0", "-0.5"
FloatToStr[x \in Int] ==
    LET a == IF x < 0 THEN -x ELSE x IN
    (IF x < 0 THEN <<"-">> ELSE <<>>) \o NatToStr[a \div 10] \o PERIOD \o <<Digits[(a % 10) + 1]>>

\* the sign and the unsigned rest of a numeric literal
SignOf[s \in Text] == IF s # <<>> /\ Head(s) = "-" THEN -1 ELSE 1
Unsigned[s \in Text] == IF s # <<>> /\ Head(s) \in {"+", "-"} THEN Tail(s) ELSE s

\* int(s): surrounding whitespace, an optional sign, decimal digits.  (The
\* digit-grouping underscore int() also accepts is outside the inputs drawn.)
IntParse[s \in Text] ==
    CHOOSE out \in
        {IF Unsigned[body] # <<>> /\ AllDigits[Unsigned[body]]
         THEN Ok(SignOf[body] * DigitsValue[Unsigned[body]])
         ELSE Raise("ValueError", <<>>) :
            body \in {Strip[s]}} : TRUE

\* float(s): surrounding whitespace, an optional sign, digits with an optional
\* point ("12", "12.5", ".5", "12.").  The value is kept in tenths: the texts
\* drawn carry at most one fractional digit, 0 or 5, so that the value and
\* Python's binary sums of such values are exact.  (Exponents, "inf", "nan"
\* and underscores are outside the inputs drawn.)
FloatParse[s \in Text] ==
    CHOOSE out \in
        {LET whole == parts[1]
             frac == IF Len(parts) = 2 THEN parts[2] ELSE <<>>
             tenths == IF frac = <<>> THEN 0 ELSE DigitValue[frac[1]]
         IN
         IF /\ Len(parts) <= 2
            /\ AllDigits[whole] /\ AllDigits[frac]
            /\ whole \o frac # <<>>
         THEN Ok(SignOf[body] * (10 * DigitsValue[whole] + tenths))
         ELSE Raise("ValueError", <<>>) :
            body \in {Strip[s]}, parts \in {Split[Unsigned[Strip[s]], PERIOD]}} : TRUE

(***************************************************************************)
(* The parsed document.  A soup is a record of the nodes the extractors    *)
(* look up, named by the class they are found by; an absent node is NoneV, *)
(* a node that is present is a record of what the code reads from it.      *)
(***************************************************************************)
Tag(text) == [text |-> text]
Found(node) == node # NoneV

Range(s) == {s[i] : i \in 1..Len(s)}

\* find(...) over candidates in document order: the first of them that
\* matches, or None
FindFirst(nodes, matching) ==
    IF \E i \in 1..Len(nodes) : nodes[i] \in matching
    THEN nodes[CHOOSE i \in 1..Len(nodes) :
                 /\ nodes[i] \in matching
                 /\ \A j \in 1..(i - 1) : nodes[j] \notin matching]
    ELSE NoneV

(***************************************************************************)
(* get_profile_url                                                         *)
(***************************************************************************)
\* a faulty get_profile_url: the host literal has lost its last character
get_profile_url_short_host(input_text) ==
    IF Contains[input_text, SubSeq(HOST, 1, Len(HOST) - 1)] THEN PyStr(input_text) ELSE NoneV

get_profile_url(input_text) ==
    IF Contains[input_text, HOST] THEN PyStr(input_text) ELSE NoneV

(***************************************************************************)
(* extract_basic_profile_info                                              *)
(***************************************************************************)
\* profile name
ProfileName(soup) ==
    IF Found(soup.actual_persona_name)
    THEN PyStr(Strip[soup.actual_persona_name.text])
    ELSE NoneV

\* profile level; the ValueError of int() is caught
ProfileLevel(soup) ==
    IF Found(soup.friendPlayerLevelNum)
    THEN CHOOSE out \in
            {IF n.ok THEN PyInt(n.val) ELSE NoneV :
                n \in {IntParse[Strip[soup.friendPlayerLevelNum.text]]}} : TRUE
    ELSE NoneV

\* country: the flag image's next sibling, a string or a tag.  A tag is truthy
\* and its .strip looks up a child named strip, which is None.
ProfileLocation(soup) ==
    LET img == soup.profile_flag IN
    IF ~Found(img) THEN Ok(NoneV)
    ELSE IF img.next_sibling = NoneV THEN Ok(NoneV)
    ELSE IF img.next_sibling.t = "Tag" THEN Raise("TypeError", EXC_NOT_CALLABLE)
    ELSE IF img.next_sibling.v = <<>> THEN Ok(NoneV)
    ELSE Ok(PyStr(Strip[img.next_sibling.v]))

\* online status
ProfileStatus(soup) ==
    IF Found(soup.profile_in_game_header)
    THEN PyStr(Strip[soup.profile_in_game_header.text])
    ELSE NoneV

\* avatar URL
AvatarUrl(soup) ==
    LET avatar_container == soup.playerAvatarAutoSizeInner IN
    IF Found(avatar_container) /\ Found(avatar_container.img)
    THEN avatar_container.img.src
    ELSE NoneV

\* background URL
BackgroundUrl(soup) ==
    LET bg_container == soup.profile_animated_background IN
    IF /\ Found(bg_container)
       /\ Found(bg_container.video)
       /\ Found(bg_container.video.source)
    THEN bg_container.video.source.src
    ELSE NoneV

\* total number of badges: the lookups are chained without a test
NumberOfBadges(soup) ==
    IF ~Found(soup.profile_badges) THEN Raise("AttributeError", EXC_NO_FIND)
    ELSE IF ~Found(soup.profile_badges.total) THEN Raise("AttributeError", EXC_NO_TEXT)
    ELSE CHOOSE out \in
            {IF badge_container # <<>> THEN Ok(PyStr(badge_container)) ELSE Ok(NoneV) :
                badge_container \in {Strip[soup.profile_badges.total.text]}} : TRUE

\* the href filter of the games tab: lambda x: x and 'games/?tab=all' in x
IsGamesTab(a) == a.href # NoneV /\ a.href.v # <<>> /\ Contains[a.href.v, GAMES_TAB_MARK]

\* total games, first method: the count of the games tab
GamesTabTotal(soup) ==
    IF ~Found(soup.profile_item_links) THEN Raise("AttributeError", EXC_NO_FIND)
    ELSE CHOOSE out \in
            {IF ~Found(games_tab) THEN Ok(NoneV)
             ELSE IF ~Found(games_tab.total) THEN Raise("AttributeError", EXC_NO_TEXT)
             ELSE Ok(PyStr(Strip[games_tab.total.text])) :
                games_tab \in {FindFirst(soup.profile_item_links.anchors,
                                  {a \in Range(soup.profile_item_links.anchors) :
                                      IsGamesTab(a)})}} : TRUE

\* badge.get('data-tooltip-html', '')
TooltipOf(badge) == IF badge.tooltip = NoneV THEN <<>> ELSE badge.tooltip.v

IsGamesOwnedBadge(badge) == Contains[TooltipOf(badge), GAMES_OWNED]

\* total games, second method: the digits of the first "games owned" badge
\* tooltip.  It runs after the first method whatever that found, and assigns
\* total_games when a badge matches; total_games is what the first method
\* left.
BadgeGamesTotal(soup, total_games) ==
    IF ~Found(soup.profile_badges) THEN Raise("AttributeError", EXC_NO_FIND)
    ELSE IF ~Found(soup.profile_badges.preview)
    THEN Raise("AttributeError", EXC_NO_FIND_ALL)
    ELSE CHOOSE out \in
            {IF Found(badge) THEN Ok(PyStr(OnlyDigits[TooltipOf(badge)])) ELSE Ok(total_games) :
                badge \in {FindFirst(soup.profile_badges.preview.badges,
                              {b \in Range(soup.profile_badges.preview.badges) :
                                  IsGamesOwnedBadge(b)})}} : TRUE

\* total games: the first method, then the second
TotalGames(soup) ==
    CHOOSE out \in
        {IF ~games_tab.ok THEN games_tab ELSE BadgeGamesTotal(soup, games_tab.val) :
            games_tab \in {GamesTabTotal(soup)}} : TRUE

\* recent activity, with its "N/A" default
RecentActivity(soup) ==
    IF Found(soup.recentgame_recentplaytime)
    THEN PyStr(StripChars[soup.recentgame_recentplaytime.text, {"\n"}])
    ELSE PyStr(NOT_APPLICABLE)

\* profile description, with its "N/A" default
ProfileDescription(soup) ==
    IF Found(soup.profile_summary)
    THEN PyStr(Strip[soup.profile_summary.text])
    ELSE PyStr(NOT_APPLICABLE)

extract_basic_profile_info(soup) ==
    CHOOSE out \in
        {IF ~location.ok THEN location
         ELSE IF ~number_of_badges.ok THEN number_of_badges
         ELSE IF ~total_games.ok THEN total_games
         ELSE Ok([name |-> ProfileName(soup),
                  level |-> ProfileLevel(soup),
                  location |-> location.val,
                  status |-> ProfileStatus(soup),
                  avatar_url |-> AvatarUrl(soup),
                  background_url |-> BackgroundUrl(soup),
                  number_of_badges |-> number_of_badges.val,
                  total_games |-> total_games.val,
                  recent_activity |-> RecentActivity(soup),
                  profile_description |-> ProfileDescription(soup)]) :
            location \in {ProfileLocation(soup)},
            number_of_badges \in {NumberOfBadges(soup)},
            total_games \in {TotalGames(soup)}} : TRUE

(***************************************************************************)
(* extract_games_and_playtime                                              *)
(***************************************************************************)
\* the try block of one entry: the text before the first " hrs", as a float
ParseHours(hours_div) == FloatParse[Strip[Split[hours_div.text, HRS][1]]]

\* a faulty HoursPlayed: a failed parse counts as zero hours
HoursPlayedZero(game) ==
    IF Found(game.game_info_details)
    THEN CHOOSE out \in
            {IF hours.ok THEN PyFloat(hours.val) ELSE PyFloat(0) :
                hours \in {ParseHours(game.game_info_details)}} : TRUE
    ELSE NoneV

\* one recent_game entry's hours_played: None without a details div, and when
\* float() raises ValueError, which is caught
HoursPlayed(game) ==
    IF Found(game.game_info_details)
    THEN CHOOSE out \in
            {IF hours.ok THEN PyFloat(hours.val) ELSE NoneV :
                hours \in {ParseHours(game.game_info_details)}} : TRUE
    ELSE NoneV

\* the loop over games_list, from the entry at index i on; games and total
\* are the list and total_playtime_hours_on_recent_games so far
RECURSIVE GamesLoop(_, _, _, _)
GamesLoop(games_list, i, games, total) ==
    IF i > Len(games_list) THEN [games |-> games, total |-> total]
    ELSE IF ~Found(games_list[i].game_name)
    THEN GamesLoop(games_list, i + 1, games, total)
    ELSE CHOOSE out \in
            {GamesLoop(games_list, i + 1,
                       Append(acc, [name |-> PyStr(Strip[games_list[i].game_name.text]),
                                    hours_played |-> hours_played]),
                       IF hours_played = NoneV THEN sum ELSE sum + hours_played.v) :
                hours_played \in {HoursPlayed(games_list[i])},
                acc \in {games}, sum \in {total}} : TRUE

extract_games_and_playtime(soup) == GamesLoop(soup.recent_game, 1, <<>>, 0)

(***************************************************************************)
(* extract_friends                                                         *)
(***************************************************************************)
\* the total of the friends link; the lookups are chained without a test
TotalFriends(soup) ==
    IF ~Found(soup.profile_friend_links) THEN Raise("AttributeError", EXC_NO_FIND)
    ELSE IF ~Found(soup.profile_friend_links.total) THEN Raise("AttributeError", EXC_NO_TEXT)
    ELSE Ok(PyStr(Strip[soup.profile_friend_links.total.text]))

\* the current game of an In-Game status line: what follows the first marker
CurrentGame(in_game) == SplitMax[in_game, IN_GAME, 1][2]

\* the status and the current game read from the third line of a block
FriendStatus(line) ==
    IF Contains[line, IN_GAME]
    THEN [status |-> PyStr(IN_GAME), in_game |-> PyStr(CurrentGame(line))]
    ELSE [status |-> PyStr(line), in_game |-> NoneV]

\* one friend block: its link, name, status and current game, or what it raises
FriendEntry(friend) ==
    IF ~Found(friend.a) THEN Raise("TypeError", EXC_NOT_SUBSCRIPTABLE)
    ELSE IF friend.a.href = NoneV THEN Raise("KeyError", EXC_KEY_HREF)
    ELSE IF ~Found(friend.friendBlockContent) THEN Raise("AttributeError", EXC_NO_TEXT)
    ELSE CHOOSE out \in
            {IF Len(friend_name) < 3 THEN Raise("IndexError", EXC_LIST_INDEX)
             ELSE Ok([link |-> friend.a.href, name |-> PyStr(friend_name[1])]
                     @@ FriendStatus(Strip[friend_name[3]])) :
                friend_name \in {Split[Strip[friend.friendBlockContent.text], NEWLINE]}} : TRUE

\* the loop over friends_list, from the block at index i on; lists is the
\* four lists so far
RECURSIVE FriendsLoop(_, _, _)
FriendsLoop(friends_list, i, lists) ==
    IF i > Len(friends_list) THEN Ok(lists)
    ELSE CHOOSE out \in
            {IF ~e.ok THEN e
             ELSE FriendsLoop(friends_list, i + 1,
                    [friends_names |-> Append(acc.friends_names, e.val.name),
                     friends_links |-> Append(acc.friends_links, e.val.link),
                     friends_status |-> Append(acc.friends_status, e.val.status),
                     friends_in_game |-> Append(acc.friends_in_game, e.val.in_game)]) :
                e \in {FriendEntry(friends_list[i])}, acc \in {lists}} : TRUE

\* the friends of the top-friends container, or what reading them raises
TopFriends(soup) ==
    IF ~Found(soup.profile_topfriends) THEN Raise("AttributeError", EXC_NO_SELECT)
    ELSE FriendsLoop(soup.profile_topfriends.blocks, 1,
                     [friends_names |-> <<>>, friends_links |-> <<>>,
                      friends_status |-> <<>>, friends_in_game |-> <<>>])

extract_friends(soup) ==
    CHOOSE out \in
        {IF ~total_friends.ok THEN total_friends
         ELSE IF ~lists.ok THEN lists
         ELSE Ok([total_friends |-> total_friends.val,
                  friends_names |-> PyList(lists.val.friends_names),
                  friends_links |-> PyList(lists.val.friends_links),
                  friends_status |-> PyList(lists.val.friends_status),
                  friends_in_game |-> PyList(lists.val.friends_in_game)]) :
            total_friends \in {TotalFriends(soup)}, lists \in {TopFriends(soup)}} : TRUE

(***************************************************************************)
(* extract_years_of_service                                                *)
(***************************************************************************)
\* every div that carries a data-tooltip-html, in document order: the badges
\* of the badge preview that do, then the other divs
DivTooltips(soup) ==
    (IF Found(soup.profile_badges) /\ Found(soup.profile_badges.preview)
     THEN SelectSeq(soup.profile_badges.preview.badges, LAMBDA b : b.tooltip # NoneV)
     ELSE <<>>) \o soup.tooltip_divs

\* the attribute filter: lambda x: x and "Years of Service" in x
IsYearsBadge(div) == div.tooltip.v # <<>> /\ Contains[div.tooltip.v, YEARS_OF_SERVICE]

\* tooltip_html.split("Member since ")[1].split(".")[0]
MemberSince(tooltip_html) ==
    CHOOSE out \in
        {IF Len(parts) < 2 THEN Raise("IndexError", EXC_LIST_INDEX)
         ELSE Ok(PyStr(Split[parts[2], PERIOD][1])) :
            parts \in {Split[tooltip_html, MEMBER_SINCE]}} : TRUE

extract_years_of_service(soup) ==
    CHOOSE out \in
        {IF Found(years_badge) THEN MemberSince(years_badge.tooltip.v) ELSE Ok(NoneV) :
            years_badge \in {FindFirst(divs, {d \in Range(divs) : IsYearsBadge(d)}) :
                                divs \in {DivTooltips(soup)}}} : TRUE

(***************************************************************************)
(* scrape_steam_profile                                                    *)
(***************************************************************************)
\* a faulty ErrorParsing: the message of the exception is left out
ErrorParsingNoMessage(msg) == [error |-> PyStr(MSG_PARSE_PREFIX)]

\* the error record of the except clause: str(e) after the prefix
ErrorParsing(msg) == [error |-> PyStr(MSG_PARSE_PREFIX \o msg)]

\* a faulty TotalPlaytime: the total is stored as it is
TotalPlaytimeRaw(total) == PyFloat(total)

\* the "N/A" replacement of a zero total
TotalPlaytime(total) == IF total = 0 THEN PyStr(NOT_APPLICABLE) ELSE PyFloat(total)

\* the extraction steps inside the try block, in order; steps is the outcome
\* of each step that ran
ExtractProfile(soup) ==
    CHOOSE out \in
        {IF ~basic.ok
         THEN [result |-> ErrorParsing(basic.msg), steps |-> <<basic>>]
         ELSE IF ~friends.ok
         THEN [result |-> ErrorParsing(friends.msg), steps |-> <<basic, Ok(played), friends>>]
         ELSE IF ~years.ok
         THEN [result |-> ErrorParsing(years.msg),
               steps |-> <<basic, Ok(played), friends, years>>]
         ELSE [result |-> basic.val
                          @@ [games |-> PyList(played.games),
                              total_playtime_hours_on_recent_games |->
                                  TotalPlaytime(played.total)]
                          @@ friends.val
                          @@ [date_of_creation |-> years.val],
               steps |-> <<basic, Ok(played), friends, years>>] :
            basic \in {extract_basic_profile_info(soup)},
            played \in {extract_games_and_playtime(soup)},
            friends \in {extract_friends(soup)},
            years \in {extract_years_of_service(soup)}} : TRUE

\* a faulty StatusNotOk: only client and server errors count
StatusNotOkFrom400(status_code) == status_code >= 400

\* response.status_code != 200
StatusNotOk(status_code) == status_code # 200

\* net is what requests.get does when it is called: it raises, or it answers
\* with a status code and a body.  requests is the URLs requested.
scrape_steam_profile(input_text, net) ==
    CHOOSE out \in
        {IF profile_url = NoneV \/ profile_url.v = <<>>
         THEN [result |-> [error |-> PyStr(MSG_NOT_FOUND)], requests |-> <<>>, steps |-> <<>>]
         ELSE IF net.raises
         THEN [result |-> ErrorParsing(net.msg), requests |-> <<profile_url.v>>,
               steps |-> <<>>]
         ELSE IF StatusNotOk(net.status_code)
         THEN [result |-> [error |-> PyStr(MSG_STATUS_PREFIX \o IntToStr[net.status_code])],
               requests |-> <<profile_url.v>>, steps |-> <<>>]
         ELSE [requests |-> <<profile_url.v>>] @@ ExtractProfile(net.soup) :
            profile_url \in {get_profile_url(input_text)}} : TRUE

(***************************************************************************)
(* save_to_csv                                                             *)
(***************************************************************************)
\* the header row of save_to_csv, column by column
CsvHeader ==
    <<<<"N","a","m","e">>,
      <<"L","e","v","e","l">>,
      <<"L","o","c","a","t","i","o","n">>,
      <<"S","t","a","t","u","s">>,
      <<"T","o","t","a","l"," ","G","a","m","e","s">>,
      <<"T","o","t","a","l"," ","B","a","d","g","e","s">>,
      <<"T","o","t","a","l"," ","F","r","i","e","n","d","s">>,
      <<"A","v","a","t","a","r"," ","U","R","L">>,
      <<"B","a","c","k","g","r","o","u","n","d"," ","U","R","L">>,
      <<"T","o","t","a","l"," ","P","l","a","y","t","i","m","e"," ","H","o","u",
        "r","s"," ","o","n"," ","R","e","c","e","n","t"," ","G","a","m","e","s">>,
      <<"D","a","t","e"," ","o","f"," ","C","r","e","a","t","i","o","n">>,
      <<"R","e","c","e","n","t"," ","A","c","t","i","v","i","t","y">>,
      <<"P","r","o","f","i","l","e"," ","D","e","s","c","r","i","p","t","i","o","n">>,
      <<"T","o","p"," ","F","r","i","e","n","d","s"," ","N","a","m","e","s">>,
      <<"T","o","p"," ","F","r","i","e","n","d","s"," ",
        "P","r","o","f","i","l","e"," ","L","i","n","k","s">>,
      <<"T","o","p"," ","F","r","i","e","n","d","s"," ",
        "O","n","l","i","n","e"," ","S","t","a","t","u","s">>,
      <<"T","o","p"," ","F","r","i","e","n","d","s"," ","C","u","r","r","e","n","t"," ",
        "G","a","m","e"," ","P","l","a","y","i","n","g"," ","(","i","f"," ","a","n","y",")">>>>

\* repr() of a list element: a quoted string or None.  (Quotes, backslashes
\* and control characters, which repr() escapes, are outside the inputs drawn.)
ElementRepr(e) == IF e = NoneV THEN <<"N","o","n","e">> ELSE <<"'">> \o e.v \o <<"'">>

\* str() of a list: its elements' repr, joined by ", ", in brackets
RECURSIVE JoinRepr(_)
JoinRepr(l) ==
    IF l = <<>> THEN <<>>
    ELSE IF Len(l) = 1 THEN ElementRepr(l[1])
    ELSE ElementRepr(l[1]) \o <<",", " ">> \o JoinRepr(Tail(l))

\* the cell csv.writer writes for a value: None is the empty string, a string
\* is itself, anything else is its str()
CsvCell(value) ==
    CHOOSE cell \in
        {CASE v.t = "None" -> <<>>
           [] v.t = "str" -> v.v
           [] v.t = "int" -> IntToStr[v.v]
           [] v.t = "float" -> FloatToStr[v.v]
           [] v.t = "list" -> <<"[">> \o JoinRepr(v.v) \o <<"]">> :
            v \in {value}} : TRUE

\* profile_data.get(key)
Get(profile_data, key) == IF key \in DOMAIN profile_data THEN profile_data[key] ELSE NoneV

\* the data row: the cells in the order of the writerow call
CsvRow(profile_data) ==
    <<CsvCell(Get(profile_data, "name")),
      CsvCell(Get(profile_data, "level")),
      CsvCell(Get(profile_data, "location")),
      CsvCell(Get(profile_data, "status")),
      CsvCell(Get(profile_data, "total_games")),
      CsvCell(Get(profile_data, "number_of_badges")),
      CsvCell(Get(profile_data, "total_friends")),
      CsvCell(Get(profile_data, "avatar_url")),
      CsvCell(Get(profile_data, "background_url")),
      CsvCell(Get(profile_data, "total_playtime_hours_on_recent_games")),
      CsvCell(Get(profile_data, "date_of_creation")),
      CsvCell(Get(profile_data, "recent_activity")),
      CsvCell(Get(profile_data, "profile_description")),
      CsvCell(Get(profile_data, "friends_names")),
      CsvCell(Get(profile_data, "friends_links")),
      CsvCell(Get(profile_data, "friends_status")),
      CsvCell(Get(profile_data, "friends_in_game"))>>

\* a faulty HeaderRows: the header is written at every call
HeaderRowsAlways(target) == <<CsvHeader>>

\* the rows written before the data row: the header, when the target did not
\* exist at the call
HeaderRows(target) == IF ~target.exists THEN <<CsvHeader>> ELSE <<>>

\* the target after the call: a file is its rows, each a sequence of cells
save_to_csv(profile_data, target) ==
    [exists |-> TRUE,
     rows |-> target.rows \o HeaderRows(target) \o <<CsvRow(profile_data)>>]

NoFile == [exists |-> FALSE, rows |-> <<>>]

(***************************************************************************)
(* Inputs: the tokens typed, what the network does, the pages served.      *)
(***************************************************************************)
MaxGames == 2
MaxFriends == 2
MaxBadges == 2
MaxTooltips == 2
MaxSaves == 3

SeqsUpTo(S, n) == UNION {[1..k -> S] : k \in 0..n}

\* 'https://'
TxtHttps == <<"h","t","t","p","s",":","/","/">>
\* 'steamcommunity.co'
TxtHostShort == <<"s","t","e","a","m","c","o","m","m","u","n","i","t","y",".","c","o">>
\* 'Steamcommunity.com'
TxtHostUpper == <<"S","t","e","a","m","c","o","m","m","u","n","i","t","y",".","c","o","m">>
\* '/id/gabe'
TxtPath == <<"/","i","d","/","g","a","b","e">>
\* ' Gabe\n'
TxtName == <<" ","G","a","b","e","\n">>
\* ' Bellevue, US\n'
TxtLocation == <<" ","B","e","l","l","e","v","u","e",","," ","U","S","\n">>
\* '\nCurrently Online\n'
TxtOnline == <<"\n","C","u","r","r","e","n","t","l","y"," ","O","n","l","i","n","e","\n">>
\* 'a.jpg'
TxtAvatar == <<"a",".","j","p","g">>
\* 'b.webm'
TxtBackground == <<"b",".","w","e","b","m">>
\* '\n3.5 hours past 2 weeks\n'
TxtRecent ==
    <<"\n","3",".","5"," ","h","o","u","r","s"," ","p","a","s","t"," ","2"," ","w","e","e","k",
      "s","\n">>
\* ' No information given. '
TxtSummary ==
    <<" ","N","o"," ","i","n","f","o","r","m","a","t","i","o","n"," ","g","i","v","e","n",".",
      " ">>
\* '/id/gabe/games/?tab=all'
TxtGamesHref ==
    <<"/","i","d","/","g","a","b","e","/","g","a","m","e","s","/","?","t","a","b","=","a","l",
      "l">>
\* '/id/gabe/friends/'
TxtFriendsHref == <<"/","i","d","/","g","a","b","e","/","f","r","i","e","n","d","s","/">>
\* '34 games owned'
TxtGamesOwned == <<"3","4"," ","g","a","m","e","s"," ","o","w","n","e","d">>
\* '7 games owned. Years of Service. Member since 2011.'
TxtGamesOwnedYears ==
    <<"7"," ","g","a","m","e","s"," ","o","w","n","e","d","."," ","Y","e","a","r","s"," ","o","f",
      " ","S","e","r","v","i","c","e","."," ","M","e","m","b","e","r"," ","s","i","n","c","e"," ",
      "2","0","1","1",".">>
\* 'Years of Service<br>Member since 1 May, 2010.'
TxtYears ==
    <<"Y","e","a","r","s"," ","o","f"," ","S","e","r","v","i","c","e","<","b","r",">","M","e","m",
      "b","e","r"," ","s","i","n","c","e"," ","1"," ","M","a","y",","," ","2","0","1","0",".">>
\* 'Years of Service'
TxtYearsOnly == <<"Y","e","a","r","s"," ","o","f"," ","S","e","r","v","i","c","e">>
\* 'Member since 2010.'
TxtSinceOnly == <<"M","e","m","b","e","r"," ","s","i","n","c","e"," ","2","0","1","0",".">>
\* 'Years of Service Member since 2010'
TxtYearsNoPeriod ==
    <<"Y","e","a","r","s"," ","o","f"," ","S","e","r","v","i","c","e"," ","M","e","m","b","e","r",
      " ","s","i","n","c","e"," ","2","0","1","0">>
\* 'Member since 2009. Years of Service. Member since 2010.'
TxtSinceTwice ==
    <<"M","e","m","b","e","r"," ","s","i","n","c","e"," ","2","0","0","9","."," ","Y","e","a","r",
      "s"," ","o","f"," ","S","e","r","v","i","c","e","."," ","M","e","m","b","e","r"," ","s","i",
      "n","c","e"," ","2","0","1","0",".">>
\* '\nPortal '
TxtGameName == <<"\n","P","o","r","t","a","l"," ">>
\* '1.5 hrs on record'
TxtHoursRecord == <<"1",".","5"," ","h","r","s"," ","o","n"," ","r","e","c","o","r","d">>
\* '\n\t2 hrs'
TxtHoursIndented == <<"\n","\t","2"," ","h","r","s">>
\* '3'
TxtHoursBare == <<"3">>
\* '12 hours'
TxtHoursWord == <<"1","2"," ","h","o","u","r","s">>
\* '1,234 hrs on record'
TxtHoursComma == <<"1",",","2","3","4"," ","h","r","s"," ","o","n"," ","r","e","c","o","r","d">>
\* '0 hrs'
TxtHoursZero == <<"0"," ","h","r","s">>
\* ' hrs'
TxtHoursEmpty == <<" ","h","r","s">>
\* '/id/bob'
TxtFriendHref == <<"/","i","d","/","b","o","b">>
\* '\nBob\n\t\n\tOnline\n'
TxtFriendOnline == <<"\n","B","o","b","\n","\t","\n","\t","O","n","l","i","n","e","\n">>
\* 'Bob\n\nIn-Game Half-Life 3'
TxtFriendInGame ==
    <<"B","o","b","\n","\n","I","n","-","G","a","m","e"," ","H","a","l","f","-","L","i","f","e",
      " ","3">>
\* 'Al\n\n\tIn-GameDota\n'
TxtFriendInGameTight == <<"A","l","\n","\n","\t","I","n","-","G","a","m","e","D","o","t","a","\n">>
\* 'Bob\nOnline'
TxtFriendTwoLines == <<"B","o","b","\n","O","n","l","i","n","e">>
\* 'Al\n\n Last Online 2 days ago \nextra'
TxtFriendLong ==
    <<"A","l","\n","\n"," ","L","a","s","t"," ","O","n","l","i","n","e"," ","2"," ","d","a","y",
      "s"," ","a","g","o"," ","\n","e","x","t","r","a">>

Tokens ==
    {p \o m \o s : p \in {<<>>, TxtHttps},
                   m \in {HOST, TxtHostShort, TxtHostUpper},
                   s \in {<<>>, TxtPath}}

StatusCodes == {200, 201, 404, 503}

\* a page with every node the extractors look up
BaseSoup ==
    [actual_persona_name |-> Tag(TxtName),
     friendPlayerLevelNum |-> Tag(<<"1", "0">>),
     profile_flag |-> [next_sibling |-> PyStr(TxtLocation)],
     profile_in_game_header |-> Tag(TxtOnline),
     playerAvatarAutoSizeInner |-> [img |-> [src |-> PyStr(TxtAvatar)]],
     profile_animated_background |-> [video |-> [source |-> [src |-> PyStr(TxtBackground)]]],
     profile_badges |-> [total |-> Tag(<<" ", "7">>),
                         preview |-> [badges |-> <<[tooltip |-> NoneV]>>]],
     profile_item_links |->
        [anchors |-> <<[href |-> PyStr(TxtGamesHref), total |-> Tag(<<"1", "2", " ">>)]>>],
     recentgame_recentplaytime |-> Tag(TxtRecent),
     profile_summary |-> Tag(TxtSummary),
     recent_game |-> <<[game_name |-> Tag(TxtGameName),
                        game_info_details |-> Tag(TxtHoursRecord)]>>,
     profile_friend_links |-> [total |-> Tag(<<"3">>)],
     profile_topfriends |->
        [blocks |-> <<[a |-> [href |-> PyStr(TxtFriendHref)],
                       friendBlockContent |-> Tag(TxtFriendOnline)]>>],
     tooltip_divs |-> <<[tooltip |-> PyStr(TxtYears)]>>]

\* the nodes found by one top-level lookup each
Nodes ==
    {"actual_persona_name", "friendPlayerLevelNum", "profile_flag", "profile_in_game_header",
     "playerAvatarAutoSizeInner", "profile_animated_background", "profile_badges",
     "profile_item_links", "recentgame_recentplaytime", "profile_summary",
     "profile_friend_links", "profile_topfriends"}

\* a page with none of them
EmptySoup ==
    [n \in Nodes |-> NoneV] @@ [recent_game |-> <<>>, tooltip_divs |-> <<>>]

\* the base page without one node
Without(n) == [BaseSoup EXCEPT ![n] = NoneV]

AbsentNodeSoups == {Without(n) : n \in Nodes}

\* the base page with one node present and a child of it absent or odd
PartialNodeSoups ==
    {[BaseSoup EXCEPT !.profile_flag.next_sibling = s] :
        s \in {NoneV, PyStr(<<>>), [t |-> "Tag"]}}
    \cup {[BaseSoup EXCEPT !.friendPlayerLevelNum.text = s] :
        s \in {<<" ", "7", "\n">>, <<"x">>, <<>>}}
    \cup {[BaseSoup EXCEPT !.playerAvatarAutoSizeInner.img = s] :
        s \in {NoneV, [src |-> NoneV]}}
    \cup {[BaseSoup EXCEPT !.profile_animated_background.video = s] :
        s \in {NoneV, [source |-> NoneV], [source |-> [src |-> NoneV]]}}
    \cup {[BaseSoup EXCEPT !.profile_badges.total = s] : s \in {NoneV, Tag(<<" ">>)}}
    \cup {[BaseSoup EXCEPT !.profile_badges.preview = NoneV]}
    \cup {[BaseSoup EXCEPT !.profile_friend_links.total = NoneV]}

GameEntries ==
    {[game_name |-> NoneV, game_info_details |-> Tag(TxtHoursIndented)]}
    \cup {[game_name |-> Tag(TxtGameName), game_info_details |-> d] :
            d \in {NoneV, Tag(TxtHoursRecord), Tag(TxtHoursIndented), Tag(TxtHoursBare),
                   Tag(TxtHoursWord), Tag(TxtHoursComma), Tag(TxtHoursZero),
                   Tag(TxtHoursEmpty)}}

GamesSoups == {[BaseSoup EXCEPT !.recent_game = g] : g \in SeqsUpTo(GameEntries, MaxGames)}

FriendBlocks ==
    {[a |-> [href |-> PyStr(TxtFriendHref)], friendBlockContent |-> Tag(c)] :
        c \in {TxtFriendOnline, TxtFriendInGame, TxtFriendInGameTight, TxtFriendTwoLines,
               TxtFriendLong}}
    \cup {[a |-> NoneV, friendBlockContent |-> Tag(TxtFriendOnline)],
          [a |-> [href |-> NoneV], friendBlockContent |-> Tag(TxtFriendOnline)],
          [a |-> [href |-> PyStr(TxtFriendHref)], friendBlockContent |-> NoneV]}

FriendsSoups ==
    {[BaseSoup EXCEPT !.profile_topfriends.blocks = f] :
        f \in SeqsUpTo(FriendBlocks, MaxFriends)}

AnchorLists ==
    {<<>>,
     <<[href |-> PyStr(TxtFriendsHref), total |-> Tag(<<"3">>)]>>,
     <<[href |-> NoneV, total |-> NoneV],
       [href |-> PyStr(TxtGamesHref), total |-> Tag(<<"1", "2", " ">>)]>>,
     <<[href |-> PyStr(TxtGamesHref), total |-> Tag(<<>>)]>>,
     <<[href |-> PyStr(TxtGamesHref), total |-> NoneV]>>}

Badges ==
    {[tooltip |-> NoneV], [tooltip |-> PyStr(TxtGamesOwned)],
     [tooltip |-> PyStr(TxtGamesOwnedYears)], [tooltip |-> PyStr(TxtYearsOnly)]}

TotalGamesSoups ==
    {[BaseSoup EXCEPT !.profile_item_links.anchors = a, !.profile_badges.preview.badges = b] :
        a \in AnchorLists, b \in SeqsUpTo(Badges, MaxBadges)}

Tooltips ==
    {[tooltip |-> PyStr(t)] :
        t \in {TxtYears, TxtYearsOnly, TxtSinceOnly, TxtYearsNoPeriod, TxtSinceTwice}}

YearsSoups == {[BaseSoup EXCEPT !.tooltip_divs = t] : t \in SeqsUpTo(Tooltips, MaxTooltips)}

Soups ==
    {BaseSoup, EmptySoup} \cup AbsentNodeSoups \cup PartialNodeSoups \cup GamesSoups
    \cup FriendsSoups \cup TotalGamesSoups \cup YearsSoups

\* what requests.get can do: raise, or answer; an answer other than 200
\* carries a page all the same
Network ==
    {[raises |-> TRUE, msg |-> EXC_CONNECTION]}
    \cup {[raises |-> FALSE, status_code |-> 200, soup |-> s] : s \in Soups}
    \cup {[raises |-> FALSE, status_code |-> c, soup |-> s] :
            c \in StatusCodes \ {200}, s \in {BaseSoup, EmptySoup}}

\* the records handed to save_to_csv when it is called on its own: profile
\* records, and mappings that lack the keys
WriterRecords ==
    {ExtractProfile(s).result :
        s \in {BaseSoup,
               [BaseSoup EXCEPT !.recent_game = <<>>],
               [BaseSoup EXCEPT !.profile_topfriends.blocks = <<>>],
               Without("actual_persona_name")}}
    \cup {[error |-> PyStr(MSG_NOT_FOUND)]}

(***************************************************************************)
(* The script: one run of __main__, and save_to_csv called in sequence.    *)
(***************************************************************************)
VARIABLES
    pc,            \* where the run is: "input", "scrape", "report", "done"; "writer"
    input_text,    \* the token read
    response,      \* what requests.get did, NoneV before and without a request
    requests,      \* the URLs requested
    steps,         \* the outcome of each extraction step that ran
    profile_data,  \* what scrape_steam_profile returned, NoneV before
    target,        \* steam_profiles.csv
    saved          \* the records save_to_csv was called with, in call order

vars == <<pc, input_text, response, requests, steps, profile_data, target, saved>>

\* the target before a run: not there, or left by an earlier run
Targets == {NoFile, save_to_csv(ExtractProfile(BaseSoup).result, NoFile)}

Init ==
    /\ pc = "input"
    /\ input_text = NoneV
    /\ response = NoneV
    /\ requests = <<>>
    /\ steps = <<>>
    /\ profile_data = NoneV
    /\ target \in Targets
    /\ saved = <<>>

\* input_text = input(...)
ReadInput ==
    /\ pc = "input"
    /\ \E token \in Tokens : input_text' = PyStr(token)
    /\ pc' = "scrape"
    /\ UNCHANGED <<response, requests, steps, profile_data, target, saved>>

\* profile_data = scrape_steam_profile(input_text)
Scrape ==
    /\ pc = "scrape"
    /\ \E net \in Network :
       \E r \in {scrape_steam_profile(input_text.v, net)} :
          /\ profile_data' = r.result
          /\ requests' = r.requests
          /\ steps' = r.steps
          /\ response' = IF r.requests = <<>> THEN NoneV ELSE net
    /\ pc' = "report"
    /\ UNCHANGED <<input_text, target, saved>>

IsError(record) == "error" \in DOMAIN record

\* the success branch: save_to_csv(profile_data) and the summary
ReportSuccess ==
    /\ pc = "report"
    /\ ~IsError(profile_data)
    /\ target' = save_to_csv(profile_data, target)
    /\ saved' = Append(saved, profile_data)
    /\ pc' = "done"
    /\ UNCHANGED <<input_text, response, requests, steps, profile_data>>

\* the error branch: the message is printed, nothing is written
ReportError ==
    /\ pc = "report"
    /\ IsError(profile_data)
    /\ pc' = "done"
    /\ UNCHANGED <<input_text, response, requests, steps, profile_data, target, saved>>

Next == ReadInput \/ Scrape \/ ReportSuccess \/ ReportError

Spec == Init /\ [][Next]_vars

\* save_to_csv called in sequence on a target that did not exist
InitWriter ==
    /\ pc = "writer"
    /\ input_text = NoneV
    /\ response = NoneV
    /\ requests = <<>>
    /\ steps = <<>>
    /\ profile_data = NoneV
    /\ target = NoFile
    /\ saved = <<>>

SaveCall ==
    /\ pc = "writer"
    /\ Len(saved) < MaxSaves
    /\ \E record \in WriterRecords :
          /\ target' = save_to_csv(record, target)
          /\ saved' = Append(saved, record)
    /\ UNCHANGED <<pc, input_text, response, requests, steps, profile_data>>

NextWriter == SaveCall

SpecWriter == InitWriter /\ [][NextWriter]_vars

(***************************************************************************)
(* Properties.                                                             *)
(***************************************************************************)
\* scrape_steam_profile has returned
Returned == pc \in {"report", "done"}

\* a request was made and answered
Answered == response # NoneV /\ ~response.raises

\* the answer was 200: its body was parsed and the extraction ran
Parsed == Answered /\ response.status_code = 200

\* the token holds the host literal at some place
HasHost(token) ==
    \E i \in 1..Len(token) :
        /\ i + Len(HOST) - 1 <= Len(token)
        /\ \A k \in 1..Len(HOST) : token[i + k - 1] = HOST[k]

\* the record extracted from the base page
BaseRecord == ExtractProfile(BaseSoup).result

\* the keys of a profile record
ProfileKeys == DOMAIN BaseRecord

\* the values that stand for a missing field
MissingValues == {NoneV, PyStr(NOT_APPLICABLE), PyList(<<>>)}

\* the record fields read from each node
SourcedFrom(n) ==
    CASE n = "actual_persona_name" -> {"name"}
      [] n = "friendPlayerLevelNum" -> {"level"}
      [] n = "profile_flag" -> {"location"}
      [] n = "profile_in_game_header" -> {"status"}
      [] n = "playerAvatarAutoSizeInner" -> {"avatar_url"}
      [] n = "profile_animated_background" -> {"background_url"}
      [] n = "profile_badges" -> {"number_of_badges"}
      [] n = "profile_item_links" -> {"total_games"}
      [] n = "recentgame_recentplaytime" -> {"recent_activity"}
      [] n = "profile_summary" -> {"profile_description"}
      [] n = "profile_friend_links" -> {"total_friends"}
      [] n = "profile_topfriends" ->
            {"friends_names", "friends_links", "friends_status", "friends_in_game"}

\* the base page with a friend block of two text lines
TwoLineFriendSoup ==
    [BaseSoup EXCEPT !.profile_topfriends.blocks =
        <<[a |-> [href |-> PyStr(TxtFriendHref)], friendBlockContent |-> Tag(TxtFriendTwoLines)]>>]

\* C1 (as claimed): a page that lacks one node, or whose friend block has fewer
\* than three text lines, still yields a profile record, with the fields read
\* from that node missing and every other field extracted as from the full page.
C1_FieldFailureIsolated ==
    /\ \A n \in Nodes :
          (Returned /\ Parsed /\ response.soup = Without(n)) =>
              /\ ~IsError(profile_data)
              /\ \A f \in ProfileKeys :
                    IF f \in SourcedFrom(n)
                    THEN profile_data[f] \in MissingValues
                    ELSE profile_data[f] = BaseRecord[f]
    /\ (Returned /\ Parsed /\ response.soup = TwoLineFriendSoup) =>
          /\ ~IsError(profile_data)
          /\ \A f \in ProfileKeys \ SourcedFrom("profile_topfriends") :
                profile_data[f] = BaseRecord[f]

\* the header columns in the order of the interface, each with the record
\* field it shows
ColumnFields ==
    <<[field |-> "name",
       column |-> <<"N","a","m","e">>],
      [field |-> "level",
       column |-> <<"L","e","v","e","l">>],
      [field |-> "location",
       column |-> <<"L","o","c","a","t","i","o","n">>],
      [field |-> "status",
       column |-> <<"S","t","a","t","u","s">>],
      [field |-> "total_games",
       column |-> <<"T","o","t","a","l"," ","G","a","m","e","s">>],
      [field |-> "number_of_badges",
       column |-> <<"T","o","t","a","l"," ","B","a","d","g","e","s">>],
      [field |-> "total_friends",
       column |-> <<"T","o","t","a","l"," ","F","r","i","e","n","d","s">>],
      [field |-> "avatar_url",
       column |-> <<"A","v","a","t","a","r"," ","U","R","L">>],
      [field |-> "background_url",
       column |-> <<"B","a","c","k","g","r","o","u","n","d"," ","U","R","L">>],
      [field |-> "total_playtime_hours_on_recent_games",
       column |-> <<"T","o","t","a","l"," ","P","l","a","y","t","i","m","e"," ","H","o","u",
                    "r","s"," ","o","n"," ","R","e","c","e","n","t"," ","G","a","m","e","s">>],
      [field |-> "date_of_creation",
       column |-> <<"D","a","t","e"," ","o","f"," ","C","r","e","a","t","i","o","n">>],
      [field |-> "recent_activity",
       column |-> <<"R","e","c","e","n","t"," ","A","c","t","i","v","i","t","y">>],
      [field |-> "profile_description",
       column |-> <<"P","r","o","f","i","l","e"," ","D","e","s","c","r","i","p","t","i","o","n">>],
      [field |-> "friends_names",
       column |-> <<"T","o","p"," ","F","r","i","e","n","d","s"," ","N","a","m","e","s">>],
      [field |-> "friends_links",
       column |-> <<"T","o","p"," ","F","r","i","e","n","d","s"," ",
                    "P","r","o","f","i","l","e"," ","L","i","n","k","s">>],
      [field |-> "friends_status",
       column |-> <<"T","o","p"," ","F","r","i","e","n","d","s"," ",
                    "O","n","l","i","n","e"," ","S","t","a","t","u","s">>],
      [field |-> "friends_in_game",
       column |-> <<"T","o","p"," ","F","r","i","e","n","d","s"," ","C","u","r","r","e","n","t"," ",
                    "G","a","m","e"," ","P","l","a","y","i","n","g"," ","(","i","f"," ","a","n","y",")">>]>>

\* C2: after n >= 1 calls of save_to_csv on a target that did not exist, the
\* target is one header row followed by n data rows in call order; each data
\* row has the header's 17 columns, each cell the value of its column's field;
\* the header is the first row only.
C2_OneHeaderThenRows ==
    (pc = "writer" /\ Len(saved) >= 1) =>
        /\ target.exists
        /\ Len(target.rows) = 1 + Len(saved)
        /\ Len(target.rows[1]) = 17
        /\ \A c \in 1..17 : target.rows[1][c] = ColumnFields[c].column
        /\ \A i \in 1..Len(saved) :
              /\ Len(target.rows[i + 1]) = Len(target.rows[1])
              /\ \A c \in 1..17 :
                    target.rows[i + 1][c] = CsvCell(Get(saved[i], ColumnFields[c].field))
              /\ target.rows[i + 1] # target.rows[1]

\* three calls, the records not all the same
C2_Witness ==
    /\ pc = "writer"
    /\ Len(saved) = 3
    /\ saved[1] = BaseRecord
    /\ saved[2] # saved[1]
    /\ Len(target.rows) = 4

\* C3: an answer whose status code is not 200 gives an error record whose
\* message contains the code, no extraction step runs, and nothing is written:
\* save_to_csv is not called and the target stays as it was.
C3_Non200IsError ==
    /\ [](Returned /\ Answered /\ response.status_code # 200 =>
            /\ DOMAIN profile_data = {"error"}
            /\ Contains[profile_data.error.v, IntToStr[response.status_code]]
            /\ steps = <<>>
            /\ saved = <<>>)
    /\ [][(response' # NoneV /\ ~response'.raises /\ response'.status_code # 200) =>
            (target' = target /\ saved' = saved)]_vars

\* a 404 whose body is the full page, reported
C3_Witness ==
    /\ pc = "done"
    /\ Answered
    /\ response.status_code = 404
    /\ response.soup = BaseSoup
    /\ IsError(profile_data)

\* C4: a token that contains 'steamcommunity.com' resolves to itself, and it
\* is what is requested; any other token resolves to None, the result is the
\* error record 'Could not find profile' and no request is made.
C4_LocatorResolution ==
    /\ input_text # NoneV =>
          get_profile_url(input_text.v) =
              IF HasHost(input_text.v) THEN input_text ELSE NoneV
    /\ (Returned /\ HasHost(input_text.v)) => requests = <<input_text.v>>
    /\ (Returned /\ ~HasHost(input_text.v)) =>
          /\ profile_data = [error |-> PyStr(MSG_NOT_FOUND)]
          /\ requests = <<>>
          /\ response = NoneV

\* a token that misses the host by one character, reported
C4_Witness ==
    /\ pc = "done"
    /\ input_text = PyStr(TxtHttps \o TxtHostShort \o TxtPath)
    /\ requests = <<>>
    /\ IsError(profile_data)

\* C5 (as claimed): when the games tab gives a count, total_games is that
\* count, whatever the badges say.
C5_FirstStrategyWins ==
    (Returned /\ Parsed /\ steps[1].ok /\ GamesTabTotal(response.soup).val # NoneV) =>
        steps[1].val.total_games = GamesTabTotal(response.soup).val

\* a decimal literal as float() reads it: an optional sign, digits with at
\* most one point, at least one digit
IsDecimalText(t) ==
    LET u == IF t # <<>> /\ t[1] \in {"+", "-"} THEN Tail(t) ELSE t IN
    /\ \A i \in 1..Len(u) : u[i] \in DigitChars \cup {"."}
    /\ Cardinality({i \in 1..Len(u) : u[i] = "."}) <= 1
    /\ \E i \in 1..Len(u) : u[i] \in DigitChars

\* the duration text up to the unit suffix (all of it without one), trimmed
BeforeUnit(text) == Strip[Split[text, HRS][1]]

\* the entries of the page that have a name, in document order
NamedGames(soup) == SelectSeq(soup.recent_game, LAMBDA g : g.game_name # NoneV)

\* the sum of the hours that are set
RECURSIVE SumOfHours(_)
SumOfHours(games) ==
    IF games = <<>> THEN 0
    ELSE (IF Head(games).hours_played = NoneV THEN 0 ELSE Head(games).hours_played.v)
         + SumOfHours(Tail(games))

\* C6 (as claimed): every named entry whose duration text lacks the ' hrs'
\* suffix, or is not a number before it, is in the output with hours_played
\* absent.
C6_MalformedIsAbsent ==
    (Returned /\ Parsed /\ Len(steps) >= 2) =>
        /\ steps[2].ok
        /\ Len(steps[2].val.games) = Len(NamedGames(response.soup))
        /\ \A k \in 1..Len(NamedGames(response.soup)) :
              LET details == NamedGames(response.soup)[k].game_info_details IN
              (/\ details # NoneV
               /\ \/ ~Contains[details.text, HRS]
                  \/ ~IsDecimalText(BeforeUnit(details.text))) =>
                  steps[2].val.games[k].hours_played = NoneV

\* C6 (amended): extract_games_and_playtime raises nothing; the output is the
\* named entries in document order, each with its trimmed name; hours_played
\* is absent exactly when there is no duration text or the text up to ' hrs'
\* (all of it when the suffix is missing) is not a number, so a bare number
\* without the suffix is read as hours; the total is the sum of the hours set.
C6_UnparsedIsAbsent ==
    (Returned /\ Parsed /\ Len(steps) >= 2) =>
        /\ steps[2].ok
        /\ Len(steps[2].val.games) = Len(NamedGames(response.soup))
        /\ \A k \in 1..Len(NamedGames(response.soup)) :
              LET entry == NamedGames(response.soup)[k]
                  game == steps[2].val.games[k]
              IN
              /\ game.name = PyStr(Strip[entry.game_name.text])
              /\ game.hours_played = NoneV <=>
                    \/ entry.game_info_details = NoneV
                    \/ ~IsDecimalText(BeforeUnit(entry.game_info_details.text))
              /\ game.hours_played # NoneV =>
                    game.hours_played =
                        PyFloat(FloatParse[BeforeUnit(entry.game_info_details.text)].val)
        /\ steps[2].val.total = SumOfHours(steps[2].val.games)

\* an entry with a thousands separator, then one of 2 hours: the first is in
\* the output without hours, the second counts
C6_Witness ==
    /\ Returned /\ Parsed /\ Len(steps) >= 2
    /\ response.soup.recent_game =
          <<[game_name |-> Tag(TxtGameName), game_info_details |-> Tag(TxtHoursComma)],
            [game_name |-> Tag(TxtGameName), game_info_details |-> Tag(TxtHoursIndented)]>>
    /\ Len(steps[2].val.games) = 2
    /\ steps[2].val.games[1].hours_played = NoneV
    /\ steps[2].val.total = 20

\* C7: for a resolved token exactly one request is made, whatever happens;
\* the result is a full profile record or a record with the one key 'error',
\* and when the request or an extraction step raised it is the error record
\* with that exception's message.
C7_ExceptionsConverted ==
    (Returned /\ HasHost(input_text.v)) =>
        /\ requests = <<input_text.v>>
        /\ DOMAIN profile_data \in {{"error"}, ProfileKeys}
        /\ response.raises =>
              profile_data = [error |-> PyStr(MSG_PARSE_PREFIX \o response.msg)]
        /\ \A k \in 1..Len(steps) :
              ~steps[k].ok =>
                  profile_data = [error |-> PyStr(MSG_PARSE_PREFIX \o steps[k].msg)]
        /\ (~response.raises /\ steps # <<>> /\ \A k \in 1..Len(steps) : steps[k].ok) =>
              DOMAIN profile_data = ProfileKeys

\* the friends step raised after the first two steps had succeeded
C7_Witness ==
    /\ pc = "done"
    /\ Len(steps) = 3
    /\ steps[1].ok
    /\ ~steps[3].ok
    /\ steps[3].exc = "IndexError"
    /\ IsError(profile_data)

\* the line holds the marker at some place
HasInGame(line) ==
    \E i \in 1..Len(line) :
        /\ i + Len(IN_GAME) - 1 <= Len(line)
        /\ \A k \in 1..Len(IN_GAME) : line[i + k - 1] = IN_GAME[k]

\* what follows the first marker of the line
AfterInGame(line) ==
    LET first == CHOOSE i \in 1..Len(line) :
                    /\ SubSeq(line, i, i + Len(IN_GAME) - 1) = IN_GAME
                    /\ \A j \in 1..(i - 1) : SubSeq(line, j, j + Len(IN_GAME) - 1) # IN_GAME
    IN SubSeq(line, first + Len(IN_GAME), Len(line))

\* the third text line of a friend block, trimmed
StatusLine(friend) == Strip[Split[Strip[friend.friendBlockContent.text], NEWLINE][3]]

\* C8 (as claimed): for each friend, a status line that contains 'In-Game'
\* gives the status 'In-Game' and, as current game, the text after the first
\* marker, trimmed; any other line is the status, and the current game is unset.
C8_FriendStatus ==
    (Returned /\ Parsed /\ Len(steps) >= 3 /\ steps[3].ok) =>
        \A k \in 1..Len(response.soup.profile_topfriends.blocks) :
            LET line == StatusLine(response.soup.profile_topfriends.blocks[k]) IN
            IF HasInGame(line)
            THEN /\ steps[3].val.friends_status.v[k] = PyStr(IN_GAME)
                 /\ steps[3].val.friends_in_game.v[k] = PyStr(Strip[AfterInGame(line)])
            ELSE /\ steps[3].val.friends_status.v[k] = PyStr(line)
                 /\ steps[3].val.friends_in_game.v[k] = NoneV

\* C9 (as claimed): extract_years_of_service raises nothing; without a tooltip
\* that mentions 'Years of Service', or when that tooltip lacks 'Member since ',
\* the result is None; otherwise it is the text from 'Member since ' to the
\* next period.
C9_YearsNeverRaises ==
    (Returned /\ Parsed /\ Len(steps) = 4) =>
        /\ steps[4].ok
        /\ LET mentions == {i \in 1..Len(DivTooltips(response.soup)) :
                              Contains[DivTooltips(response.soup)[i].tooltip.v,
                                       YEARS_OF_SERVICE]}
               first == CHOOSE i \in mentions : \A j \in mentions : i <= j
               tooltip == DivTooltips(response.soup)[first].tooltip.v
           IN
           IF mentions = {} \/ ~Contains[tooltip, MEMBER_SINCE]
           THEN steps[4].val = NoneV
           ELSE steps[4].val = PyStr(Split[Split[tooltip, MEMBER_SINCE][2], PERIOD][1])

\* C10: a page without game entries gives an empty games list and the total
\* 'N/A'; the total of a profile record is 'N/A' or a number that is not zero.
C10_NoZeroTotal ==
    (Returned /\ ~IsError(profile_data)) =>
        /\ response.soup.recent_game = <<>> =>
              /\ profile_data.games = PyList(<<>>)
              /\ profile_data.total_playtime_hours_on_recent_games = PyStr(NOT_APPLICABLE)
        /\ \/ profile_data.total_playtime_hours_on_recent_games = PyStr(NOT_APPLICABLE)
           \/ /\ profile_data.total_playtime_hours_on_recent_games.t = "float"
              /\ profile_data.total_playtime_hours_on_recent_games.v # 0

\* a page without game entries, scraped and saved
C10_Witness ==
    /\ pc = "done"
    /\ ~IsError(profile_data)
    /\ response.soup.recent_game = <<>>
    /\ profile_data.total_playtime_hours_on_recent_games = PyStr(NOT_APPLICABLE)
=============================================================================
